---- MODULE Spec2Model ----
(***************************************************************************)
(* model-inspect (model_inspect/cli.py): remote safetensors header         *)
(* inspection.  The model covers get_file_response (the retrying range     *)
(* fetch, together with the urllib3 Retry adapter that create_session      *)
(* mounts), parse_single_file (the two-step header decode),                *)
(* parse_sharded_index (index fetch and the thread pool of shard decodes)  *)
(* and get_model_layers (sharded attempt, single-file fallback, catalog).  *)
(*                                                                         *)
(* The HTTP server is the environment.  Each call of get_file_response is  *)
(* answered according to a script, a non-empty sequence of statuses whose  *)
(* last element repeats: status 0 is a transport failure or timeout (no    *)
(* HTTP status), 206 a response that honours the Range header, 200 a       *)
(* response carrying the whole file.                                       *)
(***************************************************************************)
EXTENDS Integers, Sequences, FiniteSets, TLC

VARIABLES
    args,          \* main: the parsed command line (timeout, retries, backoff, jobs)
    pc,            \* position of the orchestrating (main) thread
    fr,            \* per thread: the get_file_response call in progress
    dec,           \* per thread: the parse_single_file call in progress
    files,         \* server side: content of each safetensors file
    indexDoc,      \* server side: body of model.safetensors.index.json
    fetches,       \* per file: range of every get_file_response call, in call order
    decoded,       \* per file: outcome of parse_single_file (a Future's result for a shard)
    index,         \* parse_sharded_index: the parsed index
    shard_files,   \* parse_sharded_index: sorted distinct shard filenames
    submitted,     \* parse_sharded_index: number of executor.submit calls made
    queue,         \* ThreadPoolExecutor: work items not yet taken by a worker
    headers,       \* parse_sharded_index: collected filename -> header
    consumed,      \* parse_sharded_index: futures already yielded by as_completed
    shardedError,  \* get_model_layers: the exception caught at line 177
    pendingErr,    \* parse_sharded_index: exception propagating out of the with-block
    result,        \* get_model_layers: the returned catalog
    runError       \* get_model_layers: the exception it ends with

vars == << args, pc, fr, dec, files, indexDoc, fetches, decoded, index, shard_files,
           submitted, queue, headers, consumed, shardedError, pendingErr, result, runError >>

----------------------------------------------------------------------------
(* Program constants *)

SAFETENSORS_FILE == "model.safetensors"
SAFETENSORS_INDEX_FILE == "model.safetensors.index.json"
DEFAULT_TIMEOUT == 30
DEFAULT_RETRIES == 3
DEFAULT_BACKOFF == 1
MAX_HEADER_LENGTH == 25000000
PREFIX_BYTES == 8
\* status_forcelist of the Retry strategy
StatusForcelist == {429, 500, 502, 503, 504}

(* Bounds of the model *)

MaxRetries == 3        \* largest retries argument tried on a single fetch
MaxBackoff == 2        \* largest backoff argument tried on a single fetch
MaxJobs == 2           \* largest --jobs value
MaxScriptLen == 3      \* longest server script tried on a single fetch

MaxEntries == 3        \* longest header tried on a catalog build alone
MainThread == 0
Workers == 1..MaxJobs
Threads == {MainThread} \cup Workers

----------------------------------------------------------------------------
(* Small arithmetic *)

RECURSIVE Pow2(_)
Pow2(n) == IF n <= 0 THEN 1 ELSE 2 * Pow2(n - 1)

Min(a, b) == IF a <= b THEN a ELSE b

----------------------------------------------------------------------------
(* Errors: the exception class, the file whose request or content raised   *)
(* it, and the HTTP status for an HTTPError.                                *)

Err(kind, file, status) == [kind |-> kind, file |-> file, status |-> status]
NoError == Err("none", "", 0)

----------------------------------------------------------------------------
(* get_file_response *)

NoRange == [ranged |-> FALSE, lo |-> 0, hi |-> 0]
Range(lo, hi) == [ranged |-> TRUE, lo |-> lo, hi |-> hi]

IdleFrame ==
    [state |-> "idle", file |-> "", range |-> NoRange,
     timeout |-> 0, retries |-> 0, backoff |-> 0, script |-> << >>,
     attempt |-> 0, tries |-> 0, nreq |-> 0, sleeps |-> << >>,
     status |-> 0, err |-> NoError]

\* The call get_file_response(repo, filename, revision, range_header, ...,
\* timeout, retries, backoff) at its entry to the attempt loop; script is the
\* server's behaviour during the call.
get_file_response(filename, range, timeout, retries, backoff, script) ==
    [state |-> "ready", file |-> filename, range |-> range,
     timeout |-> timeout, retries |-> retries, backoff |-> backoff,
     script |-> script,
     attempt |-> 0, tries |-> 0, nreq |-> 0, sleeps |-> << >>,
     status |-> 0, err |-> NoError]

\* Status the server gives the n-th request of a call.  A request without a
\* Range header cannot be answered with partial content.
ServerStatus(script, n, ranged) ==
    LET s == script[Min(n, Len(script))]
    IN  IF s = 206 /\ ~ranged THEN 200 ELSE s

\* raise_for_status: 4xx and 5xx raise HTTPError
RaisesForStatus(status) == status >= 400

\* Retry(total=retries, status_forcelist=[429, 500, 502, 503, 504]): the
\* adapter re-sends after a transport failure or a forcelist status ...
AdapterRetries(status) == status = 0 \/ status \in StatusForcelist

\* ... while its total is not used up (tries = re-sends already made by this
\* session.get).
AdapterResends(f) == f.tries < f.retries

\* Retry.get_backoff_time before the k-th re-send: nothing before the first,
\* backoff_factor * 2^(k-1) afterwards (urllib3 caps one sleep at 120 s, which
\* the values tried here stay below).
AdapterBackoff(backoff, k) ==
    IF k <= 1 THEN 0 ELSE backoff * Pow2(k - 1)

\* time.sleep(backoff * (2 ** attempt)), line 94
LoopBackoff(backoff, attempt) == backoff * Pow2(attempt)

\* the exception one session.get plus raise_for_status ends with
AttemptError(f, status) ==
    IF status = 0 THEN Err("ConnectionError", f.file, 0)
    ELSE IF status \in StatusForcelist THEN Err("RetryError", f.file, status)
    ELSE Err("HTTPError", f.file, status)

\* line 92: the last attempt re-raises
LoopGivesUp(f) == f.attempt = f.retries

Logged(sleeps, secs) == IF secs > 0 THEN Append(sleeps, secs) ELSE sleeps

\* The frame after the response with `status` to the request in flight:
\* lines 84-94 with the adapter's re-sends inside session.get.
AfterResponse(f, status) ==
    LET g == [f EXCEPT !.status = status]
    IN  IF AdapterRetries(status) /\ AdapterResends(f)
        THEN [g EXCEPT !.state = "ready",
                       !.tries = f.tries + 1,
                       !.sleeps = Logged(f.sleeps, AdapterBackoff(f.backoff, f.tries + 1))]
        ELSE IF ~AdapterRetries(status) /\ ~RaisesForStatus(status)
        THEN [g EXCEPT !.state = "ok"]
        ELSE IF LoopGivesUp(f)
        THEN [g EXCEPT !.state = "err", !.err = AttemptError(f, status)]
        ELSE [g EXCEPT !.state = "ready",
                       !.attempt = f.attempt + 1,
                       !.tries = 0,
                       !.sleeps = Append(f.sleeps, LoopBackoff(f.backoff, f.attempt))]

\* One HTTP request goes out (session.get, line 86, or a re-send by the adapter).
Send(t) ==
    /\ fr[t].state = "ready"
    /\ fr' = [fr EXCEPT ![t].state = "inflight", ![t].nreq = fr[t].nreq + 1]
    /\ UNCHANGED << args, pc, dec, files, indexDoc, fetches, decoded, index, shard_files,
                    submitted, queue, headers, consumed, shardedError, pendingErr,
                    result, runError >>

\* Its response, failure or timeout arrives.
Receive(t) ==
    /\ fr[t].state = "inflight"
    /\ fr' = [fr EXCEPT ![t] =
                AfterResponse(fr[t],
                    ServerStatus(fr[t].script, fr[t].nreq, fr[t].range.ranged))]
    /\ UNCHANGED << args, pc, dec, files, indexDoc, fetches, decoded, index, shard_files,
                    submitted, queue, headers, consumed, shardedError, pendingErr,
                    result, runError >>

----------------------------------------------------------------------------
(* Server-side data *)

Shard1 == "model-00001-of-00002.safetensors"
Shard2 == "model-00002-of-00002.safetensors"
ShardNames == {Shard1, Shard2}
TensorFiles == ShardNames \cup {SAFETENSORS_FILE}
AllFiles == TensorFiles \cup {SAFETENSORS_INDEX_FILE}
\* the shard names in the order sorted() gives them
SortedNames == << Shard1, Shard2 >>

\* One entry of a safetensors header; hasShape = FALSE is an entry without a
\* "shape" key (as __metadata__ is).
Entry(name, shape, dtype) ==
    [name |-> name, shape |-> shape, dtype |-> dtype, hasShape |-> TRUE]
Shapeless(name) ==
    [name |-> name, shape |-> << >>, dtype |-> "", hasShape |-> FALSE]

Metadata == Shapeless("__metadata__")
TensorA == Entry("a.weight", << 2, 3 >>, "F32")
TensorB == Entry("b.weight", << 4 >>, "bfloat16")
TensorC == Entry("c.weight", << >>, "I64")
TensorD == Entry("d.weight", << 3, 0 >>, "F8_E4M3")
HeaderSingle == << Metadata, TensorA, TensorB >>

\* A JSON text once parsed, or text that json.loads rejects.
JsonDoc(entries) == [kind |-> "json", entries |-> entries]
NotJson == [kind |-> "notjson", entries |-> << >>]

\* 8-byte length prefixes: 300, 25,000,000 and 25,000,001, little-endian.
Prefix300 == << 44, 1, 0, 0, 0, 0, 0, 0 >>
PrefixMax == << 64, 120, 125, 1, 0, 0, 0, 0 >>
PrefixOver == << 65, 120, 125, 1, 0, 0, 0, 0 >>

\* A safetensors file: prefix, header text, dataLen bytes of tensor data.
File(prefix, doc, dataLen) == [prefix |-> prefix, doc |-> doc, dataLen |-> dataLen]
NoFile == File(<< >>, NotJson, 0)

\* struct.unpack('<Q', b)[0] for an 8-byte b
LittleEndian(bytes) ==
    LET RECURSIVE LE(_)
        LE(b) == IF b = << >> THEN 0 ELSE Head(b) + 256 * LE(Tail(b))
    IN  LE(bytes)

FileSize(c) == PREFIX_BYTES + LittleEndian(c.prefix) + c.dataLen

\* Body of the response with `status` to a request for `range` of file c:
\* its length, its first bytes when it starts at offset 0, and what json.loads
\* will make of it.  Only the window [8, 8+L-1] is the header text; the whole
\* file starts with the binary prefix and is no JSON text.
ResponseContent(c, range, status) ==
    IF status = 206 /\ range.ranged
    THEN LET hi == Min(range.hi, FileSize(c) - 1)
         IN  [len |-> IF hi >= range.lo THEN hi - range.lo + 1 ELSE 0,
              first |-> IF range.lo = 0
                        THEN SubSeq(c.prefix, 1, Min(hi + 1, PREFIX_BYTES))
                        ELSE << >>,
              doc |-> IF range.lo = PREFIX_BYTES
                         /\ hi = PREFIX_BYTES + LittleEndian(c.prefix) - 1
                      THEN c.doc ELSE NotJson]
    ELSE [len |-> FileSize(c), first |-> c.prefix, doc |-> NotJson]

\* The contents a run may find under each name.  The server's choice for a
\* file is fixed when the file is first asked for.
RunFiles(f) ==
    IF f = Shard1
    THEN {File(Prefix300, JsonDoc(<< Metadata, TensorA, TensorC >>), 16),
          File(Prefix300, NotJson, 16)}
    ELSE IF f = Shard2
    THEN {File(PrefixMax, JsonDoc(<< TensorB >>), 16),
          File(Prefix300, JsonDoc(<< Metadata >>), 16),
          File(Prefix300, JsonDoc(<< Shapeless("b.weight") >>), 16),
          File(PrefixOver, JsonDoc(<< TensorB >>), 16)}
    ELSE {File(Prefix300, JsonDoc(HeaderSingle), 16),
          File(Prefix300, JsonDoc(<< TensorD, Shapeless("b.weight") >>), 16),
          File(Prefix300, NotJson, 16),
          File(PrefixOver, JsonDoc(HeaderSingle), 16)}

----------------------------------------------------------------------------
(* parse_single_file *)

IdleDec == [stage |-> "idle", file |-> "", header_length |-> 0]

NotDecoded == [kind |-> "none", header |-> << >>, err |-> NoError]
Returned(header) == [kind |-> "ok", header |-> header, err |-> NoError]
Raised(e) == [kind |-> "err", header |-> << >>, err |-> e]

\* faulty variant of HeaderTooLarge: the limit itself is refused
HeaderTooLargeAtLimit(header_length) == header_length >= MAX_HEADER_LENGTH

\* line 110
HeaderTooLarge(header_length) == header_length > MAX_HEADER_LENGTH

\* faulty variant of BodyRange: the end of the range taken as exclusive
BodyRangeOneMore(header_length) == Range(PREFIX_BYTES, PREFIX_BYTES + header_length)

\* line 114: f'bytes=8-{8 + header_length - 1}'
BodyRange(header_length) == Range(PREFIX_BYTES, PREFIX_BYTES + header_length - 1)

\* lines 99-104: the call up to its first get_file_response, which takes the
\* defaults for timeout, retries and backoff
StartDecode(t, filename, script) ==
    /\ dec' = [dec EXCEPT ![t] =
                 [stage |-> "len", file |-> filename, header_length |-> 0]]
    /\ fr' = [fr EXCEPT ![t] =
                 get_file_response(filename, Range(0, PREFIX_BYTES - 1), DEFAULT_TIMEOUT,
                                   DEFAULT_RETRIES, DEFAULT_BACKOFF, script)]
    /\ fetches' = [fetches EXCEPT ![filename] =
                     Append(fetches[filename], Range(0, PREFIX_BYTES - 1))]
    /\ \E c \in RunFiles(filename) : files' = [files EXCEPT ![filename] = c]

\* parse_single_file returns or raises: a worker's Future is completed, the
\* main thread is back in get_model_layers.
FinishDecode(t, outcome) ==
    /\ decoded' = [decoded EXCEPT ![dec[t].file] = outcome]
    /\ dec' = [dec EXCEPT ![t] = IdleDec]
    /\ fr' = [fr EXCEPT ![t] = IdleFrame]
    /\ UNCHANGED fetches

\* lines 104-115: the first response is unpacked, checked, and the header
\* body is requested.
ParseLen(t, script) ==
    /\ dec[t].stage = "len"
    /\ fr[t].state \in {"ok", "err"}
    /\ LET f == dec[t].file
           content == ResponseContent(files[f], fr[t].range, fr[t].status)
           header_length == LittleEndian(content.first)
       IN  IF fr[t].state = "err" THEN FinishDecode(t, Raised(fr[t].err))
           ELSE IF content.len # PREFIX_BYTES
           THEN FinishDecode(t, Raised(Err("struct.error", f, 0)))
           ELSE IF HeaderTooLarge(header_length)
           THEN FinishDecode(t, Raised(Err("HeaderTooLarge", f, 0)))
           ELSE /\ dec' = [dec EXCEPT ![t].stage = "body",
                                      ![t].header_length = header_length]
                /\ fr' = [fr EXCEPT ![t] =
                            get_file_response(f, BodyRange(header_length), DEFAULT_TIMEOUT,
                                              DEFAULT_RETRIES, DEFAULT_BACKOFF, script)]
                /\ fetches' = [fetches EXCEPT ![f] =
                                 Append(fetches[f], BodyRange(header_length))]
                /\ UNCHANGED decoded
    /\ UNCHANGED << args, pc, files, indexDoc, index, shard_files, submitted, queue,
                    headers, consumed, shardedError, pendingErr, result, runError >>

\* faulty variant of ParseBody: the thread that decoded the header stores it
\* in the collection map itself
ParseBodyStoresHeader(t) ==
    /\ dec[t].stage = "body"
    /\ fr[t].state \in {"ok", "err"}
    /\ LET f == dec[t].file
           content == ResponseContent(files[f], fr[t].range, fr[t].status)
       IN  IF fr[t].state = "err"
           THEN FinishDecode(t, Raised(fr[t].err)) /\ UNCHANGED headers
           ELSE IF content.doc.kind # "json"
           THEN FinishDecode(t, Raised(Err("InvalidJSONHeader", f, 0))) /\ UNCHANGED headers
           ELSE /\ FinishDecode(t, Returned(content.doc.entries))
                /\ headers' = [g \in (DOMAIN headers) \cup {f} |->
                                 IF g = f THEN content.doc.entries ELSE headers[g]]
    /\ UNCHANGED << args, pc, files, indexDoc, index, shard_files, submitted, queue,
                    consumed, shardedError, pendingErr, result, runError >>

\* lines 115-123: the second response is parsed as JSON.
ParseBody(t) ==
    /\ dec[t].stage = "body"
    /\ fr[t].state \in {"ok", "err"}
    /\ LET f == dec[t].file
           content == ResponseContent(files[f], fr[t].range, fr[t].status)
       IN  IF fr[t].state = "err" THEN FinishDecode(t, Raised(fr[t].err))
           ELSE IF content.doc.kind # "json"
           THEN FinishDecode(t, Raised(Err("InvalidJSONHeader", f, 0)))
           ELSE FinishDecode(t, Returned(content.doc.entries))
    /\ UNCHANGED << args, pc, files, indexDoc, index, shard_files, submitted, queue,
                    headers, consumed, shardedError, pendingErr, result, runError >>

----------------------------------------------------------------------------
(* Initial values shared by the specifications *)

Defaults ==
    [timeout |-> DEFAULT_TIMEOUT, retries |-> DEFAULT_RETRIES,
     backoff |-> DEFAULT_BACKOFF, jobs |-> 1]

NoIndex == [kind |-> "none", weight_map |-> << >>]

Blank ==
    /\ indexDoc = NoIndex
    /\ decoded = [f \in TensorFiles |-> NotDecoded]
    /\ index = NoIndex
    /\ shard_files = << >>
    /\ submitted = 0
    /\ queue = << >>
    /\ headers = << >>
    /\ consumed = {}
    /\ shardedError = NoError
    /\ pendingErr = NoError
    /\ result = << >>
    /\ runError = NoError

----------------------------------------------------------------------------
(* Catalog building (get_model_layers, lines 162-176 and 182-187) *)

\* faulty variant of DtypeBytes: the lowercase aliases are not in the table
DtypeBytesCanonicalOnly(dtype) ==
    CASE dtype \in {"F32", "I32"} -> 4
      [] dtype \in {"F16", "BF16", "I16"} -> 2
      [] dtype = "I64" -> 8
      [] OTHER -> 1

\* DTYPE_BYTES.get(dtype, 1), lines 29-49
DtypeBytes(dtype) ==
    CASE dtype \in {"F32", "I32", "float32", "int32"} -> 4
      [] dtype \in {"F16", "BF16", "I16", "float16", "bfloat16", "int16"} -> 2
      [] dtype \in {"I64", "int64"} -> 8
      [] dtype \in {"I8", "U8", "BOOL", "int8", "uint8", "bool"} -> 1
      [] OTHER -> 1

RECURSIVE Prod(_)
Prod(shape) == IF shape = << >> THEN 1 ELSE Head(shape) * Prod(Tail(shape))

TensorRecord(e) ==
    [name |-> e.name, shape |-> e.shape, dtype |-> e.dtype,
     size |-> Prod(e.shape) * DtypeBytes(e.dtype)]

Built(records) == [ok |-> TRUE, records |-> records, err |-> NoError]
BuildRaised(e) == [ok |-> FALSE, records |-> << >>, err |-> e]

HasName(header, name) == \E i \in 1..Len(header) : header[i].name = name
Lookup(header, name) ==
    header[CHOOSE i \in 1..Len(header) : header[i].name = name]

\* faulty variant of ShardedFrom: a tensor absent from its shard's header is
\* an error
RECURSIVE ShardedFromStrict(_, _, _, _)
ShardedFromStrict(weight_map, hdrs, i, acc) ==
    IF i > Len(weight_map) THEN Built(acc)
    ELSE LET name == weight_map[i].name
             filename == weight_map[i].file
         IN  IF ~HasName(hdrs[filename], name) \/ ~Lookup(hdrs[filename], name).hasShape
             THEN BuildRaised(Err("KeyError", filename, 0))
             ELSE ShardedFromStrict(weight_map, hdrs, i + 1,
                                    Append(acc, TensorRecord(Lookup(hdrs[filename], name))))

\* lines 162-176: one record per weight_map entry whose tensor is in the
\* header of its shard; tensor_info["shape"] raises KeyError on an entry
\* without a shape.
RECURSIVE ShardedFrom(_, _, _, _)
ShardedFrom(weight_map, hdrs, i, acc) ==
    IF i > Len(weight_map) THEN Built(acc)
    ELSE LET name == weight_map[i].name
             filename == weight_map[i].file
         IN  IF ~HasName(hdrs[filename], name)
             THEN ShardedFrom(weight_map, hdrs, i + 1, acc)
             ELSE IF ~Lookup(hdrs[filename], name).hasShape
             THEN BuildRaised(Err("KeyError", filename, 0))
             ELSE ShardedFrom(weight_map, hdrs, i + 1,
                              Append(acc, TensorRecord(Lookup(hdrs[filename], name))))

ShardedCatalog(idx, hdrs) == ShardedFrom(idx.weight_map, hdrs, 1, << >>)

\* faulty variant of SingleFrom: __metadata__ is treated like a tensor entry
RECURSIVE SingleFromAllKeys(_, _, _)
SingleFromAllKeys(header, i, acc) ==
    IF i > Len(header) THEN Built(acc)
    ELSE IF ~header[i].hasShape THEN BuildRaised(Err("KeyError", SAFETENSORS_FILE, 0))
    ELSE SingleFromAllKeys(header, i + 1, Append(acc, TensorRecord(header[i])))

\* lines 182-187: one record per header entry not named __metadata__
RECURSIVE SingleFrom(_, _, _)
SingleFrom(header, i, acc) ==
    IF i > Len(header) THEN Built(acc)
    ELSE IF header[i].name = "__metadata__" THEN SingleFrom(header, i + 1, acc)
    ELSE IF ~header[i].hasShape THEN BuildRaised(Err("KeyError", SAFETENSORS_FILE, 0))
    ELSE SingleFrom(header, i + 1, Append(acc, TensorRecord(header[i])))

SingleCatalog(header) == SingleFrom(header, 1, << >>)

----------------------------------------------------------------------------
(* get_model_layers and parse_sharded_index *)

\* faulty variant of Catches: `except requests.HTTPError`
CatchesOnlyHTTPError(e) == e.kind = "HTTPError"

\* line 177: `except Exception` takes every exception the sharded path raises
Catches(e) == e.kind # "none"

\* lines 177-181: the handler starts parse_single_file on model.safetensors;
\* an exception it does not take ends the run.
EnterFallback(e, script) ==
    IF Catches(e)
    THEN /\ shardedError' = e
         /\ pc' = "fallback"
         /\ StartDecode(MainThread, SAFETENSORS_FILE, script)
         /\ UNCHANGED runError
    ELSE /\ runError' = e
         /\ pc' = "failed"
         /\ fr' = [fr EXCEPT ![MainThread] = IdleFrame]
         /\ UNCHANGED << shardedError, dec, fetches, files >>

\* faulty variant of ShardFilesOf: the values of weight_map as they come,
\* neither sorted nor made distinct
ShardFilesOfAsListed(weight_map) ==
    [i \in 1..Len(weight_map) |-> weight_map[i].file]

\* line 138: sorted(set(index["weight_map"].values()))
ShardFilesOf(weight_map) ==
    SelectSeq(SortedNames,
              LAMBDA f : \E i \in 1..Len(weight_map) : weight_map[i].file = f)

\* lines 130-138: the index response is parsed and the shard list computed;
\* a failed fetch, text that is no JSON, or a missing weight_map raise.
ParseIndex(script) ==
    /\ pc = "index"
    /\ fr[MainThread].state \in {"ok", "err"}
    /\ IF fr[MainThread].state = "err" \/ indexDoc.kind # "json"
       THEN /\ EnterFallback(
                  IF fr[MainThread].state = "err" THEN fr[MainThread].err
                  ELSE IF indexDoc.kind = "notjson"
                  THEN Err("JSONDecodeError", SAFETENSORS_INDEX_FILE, 0)
                  ELSE Err("KeyError", SAFETENSORS_INDEX_FILE, 0),
                  script)
            /\ UNCHANGED << index, shard_files >>
       ELSE /\ index' = indexDoc
            /\ shard_files' = ShardFilesOf(indexDoc.weight_map)
            /\ pc' = "pool"
            /\ fr' = [fr EXCEPT ![MainThread] = IdleFrame]
            /\ UNCHANGED << dec, fetches, files, shardedError, runError >>
    /\ UNCHANGED << args, indexDoc, decoded, submitted, queue, headers, consumed,
                    pendingErr, result >>

\* line 147: executor.submit(fetch_header, filename), in shard_files order
Submit ==
    /\ pc = "pool"
    /\ submitted < Len(shard_files)
    /\ queue' = Append(queue, shard_files[submitted + 1])
    /\ submitted' = submitted + 1
    /\ UNCHANGED << args, pc, fr, dec, files, indexDoc, fetches, decoded, index,
                    shard_files, headers, consumed, shardedError, pendingErr,
                    result, runError >>

\* faulty variant of WorkerStart: the pool is not limited to max_workers=jobs
WorkerStartAnyThread(w, script) ==
    /\ w \in Workers
    /\ dec[w].stage = "idle"
    /\ \A v \in 1..(w - 1) : dec[v].stage # "idle"
    /\ queue # << >>
    /\ queue' = Tail(queue)
    /\ StartDecode(w, Head(queue), script)
    /\ UNCHANGED << args, pc, indexDoc, decoded, index, shard_files, submitted,
                    headers, consumed, shardedError, pendingErr, result, runError >>

\* A pool thread (one of max_workers=jobs) takes the oldest work item and
\* runs fetch_header: lines 140-143.  Pool threads are interchangeable; the
\* idle one with the lowest number stands for whichever takes the item.
WorkerStart(w, script) ==
    /\ w \in 1..args.jobs
    /\ dec[w].stage = "idle"
    /\ \A v \in 1..(w - 1) : dec[v].stage # "idle"
    /\ queue # << >>
    /\ queue' = Tail(queue)
    /\ StartDecode(w, Head(queue), script)
    /\ UNCHANGED << args, pc, indexDoc, decoded, index, shard_files, submitted,
                    headers, consumed, shardedError, pendingErr, result, runError >>

\* faulty variant of FinishedFuture: as_completed yields only futures that
\* hold a result
FinishedFutureWithResult(f) == decoded[f].kind = "ok"

\* line 148: as_completed yields a future once its task has returned or raised
FinishedFuture(f) == decoded[f].kind # "none"

\* faulty variant of ResultRaises: a failed task is collected like any other
ResultNeverRaises(outcome) == FALSE

\* line 149: future.result() re-raises the exception of a failed task
ResultRaises(outcome) == outcome.kind = "err"

\* faulty variant of Collect: the header of the n-th future to complete is
\* stored under the n-th submitted filename
CollectInSubmissionOrder(f) ==
    /\ pc = "pool"
    /\ submitted = Len(shard_files)
    /\ \E i \in 1..Len(shard_files) : shard_files[i] = f
    /\ f \notin consumed
    /\ FinishedFuture(f)
    /\ consumed' = consumed \cup {f}
    /\ IF ~ResultRaises(decoded[f])
       THEN /\ headers' = [g \in (DOMAIN headers) \cup {shard_files[Cardinality(consumed) + 1]} |->
                             IF g = shard_files[Cardinality(consumed) + 1]
                             THEN decoded[f].header ELSE headers[g]]
            /\ UNCHANGED << pc, pendingErr >>
       ELSE /\ pendingErr' = decoded[f].err
            /\ pc' = "shutdown"
            /\ UNCHANGED headers
    /\ UNCHANGED << args, fr, dec, files, indexDoc, fetches, decoded, index, shard_files,
                    submitted, queue, shardedError, result, runError >>

\* lines 148-151: as_completed yields a finished future; result() returns the
\* header, stored under its filename, or raises the task's exception, which
\* leaves the loop and enters the executor's shutdown(wait=True).
Collect(f) ==
    /\ pc = "pool"
    /\ submitted = Len(shard_files)
    /\ \E i \in 1..Len(shard_files) : shard_files[i] = f
    /\ f \notin consumed
    /\ FinishedFuture(f)
    /\ consumed' = consumed \cup {f}
    /\ IF ~ResultRaises(decoded[f])
       THEN /\ headers' = [g \in (DOMAIN headers) \cup {f} |->
                             IF g = f THEN decoded[f].header ELSE headers[g]]
            /\ UNCHANGED << pc, pendingErr >>
       ELSE /\ pendingErr' = decoded[f].err
            /\ pc' = "shutdown"
            /\ UNCHANGED headers
    /\ UNCHANGED << args, fr, dec, files, indexDoc, fetches, decoded, index, shard_files,
                    submitted, queue, shardedError, result, runError >>

\* faulty variant of PoolDrained: shutdown(wait=False)
PoolDrainedNoWait == TRUE

\* the executor's shutdown(wait=True) at the end of the with-block, line 146:
\* no work item is left and every pool thread has finished its task
PoolDrained == queue = << >> /\ \A w \in Workers : dec[w].stage = "idle"

\* The with-block is left once every submitted task has run; the exception
\* then reaches the handler of get_model_layers.
ShutdownDone(script) ==
    /\ pc = "shutdown"
    /\ PoolDrained
    /\ EnterFallback(pendingErr, script)
    /\ UNCHANGED << args, indexDoc, decoded, index, shard_files, submitted, queue,
                    headers, consumed, pendingErr, result >>

\* lines 153 and 162-176: parse_sharded_index returns and the catalog is
\* built from weight_map.
BuildSharded(script) ==
    /\ pc = "pool"
    /\ submitted = Len(shard_files)
    /\ \A i \in 1..Len(shard_files) : shard_files[i] \in consumed
    /\ LET built == ShardedCatalog(index, headers)
       IN  IF built.ok
           THEN /\ result' = built.records
                /\ pc' = "done"
                /\ UNCHANGED << fr, dec, fetches, files, shardedError, runError >>
           ELSE /\ EnterFallback(built.err, script)
                /\ UNCHANGED result
    /\ UNCHANGED << args, indexDoc, decoded, index, shard_files, submitted, queue,
                    headers, consumed, pendingErr >>

\* faulty variant of Propagated: the handler re-raises the exception it caught
PropagatedHandled(e) == shardedError

\* An exception raised inside the handler is the one that leaves
\* get_model_layers; the handled one is not raised again.
Propagated(e) == e

\* lines 181-187: the fallback decode has returned or raised.
FallbackBuild ==
    /\ pc = "fallback"
    /\ decoded[SAFETENSORS_FILE].kind # "none"
    /\ LET built == IF decoded[SAFETENSORS_FILE].kind = "ok"
                    THEN SingleCatalog(decoded[SAFETENSORS_FILE].header)
                    ELSE BuildRaised(decoded[SAFETENSORS_FILE].err)
       IN  IF built.ok
           THEN /\ result' = built.records
                /\ pc' = "done"
                /\ UNCHANGED runError
           ELSE /\ runError' = Propagated(built.err)
                /\ pc' = "failed"
                /\ UNCHANGED result
    /\ UNCHANGED << args, fr, dec, files, indexDoc, fetches, decoded, index, shard_files,
                    submitted, queue, headers, consumed, shardedError, pendingErr >>

----------------------------------------------------------------------------
(* A whole run of main -> get_model_layers *)

WeightEntry(name, file) == [name |-> name, file |-> file]
IndexJson(weight_map) == [kind |-> "json", weight_map |-> weight_map]

\* Index bodies: two shards in order, two shards out of order with one named
\* twice, one shard named twice, JSON without weight_map, and no JSON.
IndexTwoShards ==
    IndexJson(<< WeightEntry("a.weight", Shard1), WeightEntry("b.weight", Shard2) >>)
IndexUnsorted ==
    IndexJson(<< WeightEntry("b.weight", Shard2), WeightEntry("a.weight", Shard1),
                 WeightEntry("c.weight", Shard1) >>)
IndexOneShard ==
    IndexJson(<< WeightEntry("a.weight", Shard1), WeightEntry("c.weight", Shard1) >>)

IndexDocs ==
    {IndexTwoShards, IndexUnsorted, IndexOneShard,
     [kind |-> "nokey", weight_map |-> << >>],
     [kind |-> "notjson", weight_map |-> << >>]}

\* Server behaviours tried on each fetch of a shard or of model.safetensors,
\* and on the fetch of the index.
RunScripts == {<< 206 >>, << 404 >>, << 503, 503, 206 >>}
IndexScripts == RunScripts \cup {<< 0 >>, << 503 >>}

\* main, lines 190-199: the command line, with the defaults or with
\* --timeout, --retries and --backoff given
CommandLines ==
    {[timeout |-> o.timeout, retries |-> o.retries, backoff |-> o.backoff, jobs |-> j] :
        o \in {Defaults, [timeout |-> 5, retries |-> 0, backoff |-> 2, jobs |-> 1]},
        j \in 1..MaxJobs}

Init ==
    /\ args \in CommandLines
    /\ pc = "index"
    /\ files = [f \in TensorFiles |-> NoFile]
    /\ indexDoc \in IndexDocs
    /\ \E sc \in IndexScripts :
          fr = [t \in Threads |->
                  IF t = MainThread
                  THEN get_file_response(SAFETENSORS_INDEX_FILE, NoRange, DEFAULT_TIMEOUT,
                                         DEFAULT_RETRIES, DEFAULT_BACKOFF, sc)
                  ELSE IdleFrame]
    /\ dec = [t \in Threads |-> IdleDec]
    /\ fetches = [f \in AllFiles |->
                    IF f = SAFETENSORS_INDEX_FILE THEN << NoRange >> ELSE << >>]
    /\ decoded = [f \in TensorFiles |-> NotDecoded]
    /\ index = NoIndex
    /\ shard_files = << >>
    /\ submitted = 0
    /\ queue = << >>
    /\ headers = << >>
    /\ consumed = {}
    /\ shardedError = NoError
    /\ pendingErr = NoError
    /\ result = << >>
    /\ runError = NoError

Next ==
    \/ \E t \in Threads : Send(t)
    \/ \E t \in Threads : Receive(t)
    \/ \E t \in Threads, sc \in RunScripts : ParseLen(t, sc)
    \/ \E t \in Threads : ParseBody(t)
    \/ \E sc \in RunScripts : ParseIndex(sc)
    \/ Submit
    \/ \E w \in Workers, sc \in RunScripts : WorkerStart(w, sc)
    \/ \E f \in ShardNames : Collect(f)
    \/ \E sc \in RunScripts : ShutdownDone(sc)
    \/ \E sc \in RunScripts : BuildSharded(sc)
    \/ FallbackBuild

Spec == Init /\ [][Next]_vars

\* The runs started without --timeout, --retries and --backoff (line 202 hands
\* none of them to get_model_layers, so they cannot change a run), on every
\* index but IndexTwoShards, whose shard list and pool are those of
\* IndexUnsorted ...
InitLive ==
    /\ Init
    /\ args \in {[Defaults EXCEPT !.jobs = j] : j \in 1..MaxJobs}
    /\ indexDoc # IndexTwoShards

\* ... in which every request is answered or times out (timeout= at line 86)
\* and every thread that can take a step eventually takes one.
SpecLive == InitLive /\ [][Next]_vars /\ WF_vars(Next)

----------------------------------------------------------------------------
(* One call of get_file_response against every short server script *)

Statuses == {0, 200, 206, 404, 503}

Scripts(maxLen) == UNION {[1..n -> Statuses] : n \in 1..maxLen}

InitFetch ==
    /\ pc = "get_file_response"
    /\ files = [f \in TensorFiles |-> NoFile]
    /\ fetches = [f \in AllFiles |-> << >>]
    /\ \E r \in 0..MaxRetries, b \in 1..MaxBackoff, sc \in Scripts(MaxScriptLen),
          rg \in {NoRange, Range(0, PREFIX_BYTES - 1)} :
          fr = [t \in Threads |->
                  IF t = MainThread
                  THEN get_file_response(SAFETENSORS_FILE, rg, DEFAULT_TIMEOUT, r, b, sc)
                  ELSE IdleFrame]
    /\ dec = [t \in Threads |-> IdleDec]
    /\ args = Defaults
    /\ Blank

NextFetch == Send(MainThread) \/ Receive(MainThread)

SpecFetch == InitFetch /\ [][NextFetch]_vars

----------------------------------------------------------------------------
(* One call of parse_single_file on one file *)

DecodeFiles ==
    {File(p, d, n) : p \in {Prefix300, PrefixMax, PrefixOver},
                     d \in {JsonDoc(HeaderSingle), JsonDoc(<< >>), NotJson},
                     n \in {0, 16}}

DecodeScripts == {<< 206 >>, << 200 >>, << 404 >>, << 503, 503, 206 >>, << 0 >>}

InitDecode ==
    /\ pc = "parse_single_file"
    /\ \E c \in DecodeFiles :
          files = [f \in TensorFiles |-> IF f = SAFETENSORS_FILE THEN c ELSE NoFile]
    /\ \E sc \in DecodeScripts :
          fr = [t \in Threads |->
                  IF t = MainThread
                  THEN get_file_response(SAFETENSORS_FILE, Range(0, PREFIX_BYTES - 1),
                                         DEFAULT_TIMEOUT, DEFAULT_RETRIES, DEFAULT_BACKOFF, sc)
                  ELSE IdleFrame]
    /\ dec = [t \in Threads |->
                IF t = MainThread
                THEN [stage |-> "len", file |-> SAFETENSORS_FILE, header_length |-> 0]
                ELSE IdleDec]
    /\ fetches = [f \in AllFiles |->
                    IF f = SAFETENSORS_FILE THEN << Range(0, PREFIX_BYTES - 1) >> ELSE << >>]
    /\ args = Defaults
    /\ Blank

NextDecode ==
    \/ Send(MainThread)
    \/ Receive(MainThread)
    \/ \E sc \in DecodeScripts : ParseLen(MainThread, sc)
    \/ ParseBody(MainThread)

SpecDecode == InitDecode /\ [][NextDecode]_vars

----------------------------------------------------------------------------
(* The catalog build alone: get_model_layers at the point where the headers   *)
(* are in hand, on the single-file path (line 182) and on the sharded path    *)
(* (line 162), for every short header.                                        *)

BuildEntries == {Metadata, TensorA, TensorB, TensorC, TensorD, Shapeless("b.weight")}

\* headers of at most n entries; the keys of a JSON object are distinct
BuildHeaders(n) ==
    {h \in UNION {[1..k -> BuildEntries] : k \in 0..n} :
        \A i, j \in 1..Len(h) : i # j => h[i].name # h[j].name}

BuildShapes == {<< >>, << 4 >>, << 2, 3 >>, << 3, 0 >>, << 1, 1, 5 >>}

\* the keys of DTYPE_BYTES
DtypeTags ==
    {"F32", "F16", "BF16", "I64", "I32", "I16", "I8", "U8", "BOOL",
     "float32", "float16", "bfloat16", "int64", "int32", "int16", "int8", "uint8", "bool"}

\* ... and two dtypes that are not among them
BuildDtypes == DtypeTags \cup {"F8_E4M3", "F64"}

\* one-tensor headers of every shape and dtype tried
TypedHeaders ==
    {<< Entry("t.weight", sh, dt) >> : sh \in BuildShapes, dt \in BuildDtypes}

\* an index that places every tensor of header h in the first shard
WeightMapOf(h) ==
    LET tensors == SelectSeq(h, LAMBDA e : e.name # "__metadata__")
    IN  [i \in 1..Len(tensors) |-> WeightEntry(tensors[i].name, Shard1)]

InitBuild ==
    /\ args = Defaults
    /\ fr = [t \in Threads |-> IdleFrame]
    /\ dec = [t \in Threads |-> IdleDec]
    /\ queue = << >>
    /\ pendingErr = NoError
    /\ result = << >>
    /\ runError = NoError
    /\ \E h \in BuildHeaders(MaxEntries) \cup TypedHeaders :
          \/ /\ pc = "fallback"
             /\ indexDoc = [kind |-> "notjson", weight_map |-> << >>]
             /\ index = NoIndex
             /\ shard_files = << >>
             /\ submitted = 0
             /\ headers = << >>
             /\ consumed = {}
             /\ shardedError = Err("JSONDecodeError", SAFETENSORS_INDEX_FILE, 0)
             /\ files = [f \in TensorFiles |->
                           IF f = SAFETENSORS_FILE THEN File(Prefix300, JsonDoc(h), 16)
                           ELSE NoFile]
             /\ decoded = [f \in TensorFiles |->
                             IF f = SAFETENSORS_FILE THEN Returned(h) ELSE NotDecoded]
             /\ fetches = [f \in AllFiles |->
                             IF f = SAFETENSORS_INDEX_FILE THEN << NoRange >>
                             ELSE IF f = SAFETENSORS_FILE
                             THEN << Range(0, PREFIX_BYTES - 1), BodyRange(300) >>
                             ELSE << >>]
          \/ /\ WeightMapOf(h) # << >>
             /\ pc = "pool"
             /\ indexDoc = IndexJson(WeightMapOf(h))
             /\ index = indexDoc
             /\ shard_files = ShardFilesOf(WeightMapOf(h))
             /\ submitted = 1
             /\ headers = [f \in {Shard1} |-> h]
             /\ consumed = {Shard1}
             /\ shardedError = NoError
             /\ files = [f \in TensorFiles |->
                           IF f = Shard1 THEN File(Prefix300, JsonDoc(h), 16) ELSE NoFile]
             /\ decoded = [f \in TensorFiles |->
                             IF f = Shard1 THEN Returned(h) ELSE NotDecoded]
             /\ fetches = [f \in AllFiles |->
                             IF f = SAFETENSORS_INDEX_FILE THEN << NoRange >>
                             ELSE IF f = Shard1
                             THEN << Range(0, PREFIX_BYTES - 1), BodyRange(300) >>
                             ELSE << >>]

NextBuild ==
    \/ \E sc \in RunScripts : BuildSharded(sc)
    \/ FallbackBuild

SpecBuild == InitBuild /\ [][NextBuild]_vars

----------------------------------------------------------------------------
(* Claims about parse_single_file, checked under SpecDecode *)

FetchFailure(e) == e.kind \in {"HTTPError", "RetryError", "ConnectionError"}

PrefixValue(f) == LittleEndian(files[f].prefix)

\* C3: when the 8-byte prefix of a file decodes to more than 25,000,000 the
\* decode of that file fails with the header-too-large error (unless fetching
\* or unpacking the prefix itself failed) and the header body is never
\* requested: the only get_file_response call for the file is bytes=0-7.  A
\* prefix of at most 25,000,000 never fails the size check.
C3_HeaderTooLargeStopsDecode ==
    \A f \in TensorFiles :
        /\ PrefixValue(f) > 25000000 =>
              /\ Len(fetches[f]) <= 1
              /\ decoded[f].kind # "ok"
              /\ decoded[f].kind = "err" =>
                    \/ decoded[f].err.kind = "HeaderTooLarge"
                    \/ FetchFailure(decoded[f].err)
                    \/ decoded[f].err.kind = "struct.error"
        /\ PrefixValue(f) <= 25000000 => decoded[f].err.kind # "HeaderTooLarge"

C3_Witness ==
    /\ PrefixValue(SAFETENSORS_FILE) = 25000001
    /\ decoded[SAFETENSORS_FILE].err.kind = "HeaderTooLarge"
    /\ fetches[SAFETENSORS_FILE] = << Range(0, 7) >>

\* C4: a successful decode of a file has made exactly two get_file_response
\* calls for it, bytes=0-7 and then bytes=8-(8+L-1) with L the little-endian
\* value of the prefix; the second call exists only once the first response
\* has been unpacked into header_length = L.
C4_TwoFetchesInOrder ==
    /\ \A f \in TensorFiles :
          decoded[f].kind = "ok" =>
              fetches[f] = << Range(0, 7), Range(8, 8 + PrefixValue(f) - 1) >>
    /\ \A t \in Threads :
          /\ dec[t].stage = "len" => fetches[dec[t].file] = << Range(0, 7) >>
          /\ dec[t].stage = "body" =>
                /\ dec[t].header_length = PrefixValue(dec[t].file)
                /\ fetches[dec[t].file] =
                       << Range(0, 7), Range(8, 8 + dec[t].header_length - 1) >>
                /\ fr[t].range = Range(8, 8 + dec[t].header_length - 1)

C4_Witness ==
    /\ decoded[SAFETENSORS_FILE].kind = "ok"
    /\ decoded[SAFETENSORS_FILE].header = HeaderSingle
    /\ fetches[SAFETENSORS_FILE] = << Range(0, 7), Range(8, 307) >>

\* C5: a well-formed file (prefix within the limit, valid JSON header) whose
\* requests are all answered successfully, with 206 and the window or with 200
\* and the whole file, decodes to its header.
C5_ToleratesIgnoredRange ==
    \A f \in TensorFiles :
        (/\ PrefixValue(f) <= MAX_HEADER_LENGTH
         /\ files[f].doc.kind = "json"
         /\ decoded[f].kind = "err")
        => FetchFailure(decoded[f].err)

----------------------------------------------------------------------------
(* Claims about get_file_response, checked under SpecFetch *)

Finished(f) == f.state \in {"ok", "err"}

\* C6: a fetch answered 503, 503, success (with at least two retries allowed)
\* returns the successful response having slept b and then 2b, nothing else.
C6_BackoffSchedule ==
    LET f == fr[MainThread]
    IN  (/\ Finished(f)
         /\ f.retries >= 2
         /\ f.script \in {<< 503, 503, 200 >>, << 503, 503, 206 >>})
        => /\ f.state = "ok"
           /\ f.sleeps = << f.backoff, 2 * f.backoff >>

\* C7: a response with an error status outside 429, 500, 502, 503, 504 ends
\* the fetch at once: no further request, no backoff sleep.
C7_NonRetryableStatusSurfaces ==
    LET f == fr[MainThread]
    IN  (f.status >= 400 /\ f.status \notin {429, 500, 502, 503, 504})
        => f.state = "err"

\* C8: one call of get_file_response with retry count r sends at most r+1
\* HTTP requests, adapter re-sends included.
C8_RequestBudget ==
    fr[MainThread].nreq <= fr[MainThread].retries + 1

----------------------------------------------------------------------------
(* Claims about get_model_layers, checked under Spec *)

Ended == pc \in {"done", "failed"}

SingleFileTried ==
    /\ fetches[SAFETENSORS_FILE] # << >>
    /\ Head(fetches[SAFETENSORS_FILE]) = Range(0, 7)
    /\ decoded[SAFETENSORS_FILE].kind # "none"

ServedSingleCatalog == SingleCatalog(files[SAFETENSORS_FILE].doc.entries)

\* C1 as stated: whatever makes the sharded path fail, the run does not end
\* before a header decode of model.safetensors has been made, and a run whose
\* single-file decode succeeded ends in Done with the single-file catalog.
C1_AsStated ==
    /\ pc = "failed" => shardedError # NoError
    /\ (Ended /\ shardedError # NoError) => SingleFileTried
    /\ (Ended /\ decoded[SAFETENSORS_FILE].kind = "ok") =>
          /\ pc = "done"
          /\ result = ServedSingleCatalog.records

\* C1 (amended): whatever makes the sharded path fail, the run does not end
\* before a header decode of model.safetensors has been made; a run whose
\* single-file decode succeeded ends in Done with the single-file catalog
\* when every entry of that header other than __metadata__ has a shape, and
\* otherwise ends in Failed with the KeyError of the catalog build.
C1_FallbackOnAnyShardedFailure ==
    /\ pc = "failed" => shardedError # NoError
    /\ (Ended /\ shardedError # NoError) => SingleFileTried
    /\ (Ended /\ decoded[SAFETENSORS_FILE].kind = "ok") =>
          IF \A i \in 1..Len(files[SAFETENSORS_FILE].doc.entries) :
                 \/ files[SAFETENSORS_FILE].doc.entries[i].name = "__metadata__"
                 \/ files[SAFETENSORS_FILE].doc.entries[i].hasShape
          THEN pc = "done" /\ result = ServedSingleCatalog.records
          ELSE pc = "failed" /\ runError = Err("KeyError", SAFETENSORS_FILE, 0)

C1_Witness ==
    /\ pc = "done"
    /\ shardedError = Err("KeyError", Shard2, 0)
    /\ fetches[SAFETENSORS_FILE] = << Range(0, 7), Range(8, 307) >>
    /\ Len(result) = 2

\* C2: when the sharded path and the fallback have both failed, the run ends
\* with an error of the fallback on model.safetensors, never with the error
\* of the sharded path; when the single-file decode raised, with that error.
C2_FallbackErrorWins ==
    pc = "failed" =>
        /\ shardedError # NoError
        /\ runError # shardedError
        /\ runError.file = SAFETENSORS_FILE
        /\ decoded[SAFETENSORS_FILE].kind = "err" =>
              runError = decoded[SAFETENSORS_FILE].err

C2_Witness ==
    /\ pc = "failed"
    /\ shardedError = Err("HTTPError", SAFETENSORS_INDEX_FILE, 404)
    /\ runError = Err("HTTPError", SAFETENSORS_FILE, 404)

\* C9: every HTTP request of a run is made with the configured --timeout, and
\* every fetch makes the attempts and waits of the configured --retries and
\* --backoff: neither the attempt loop nor the adapter goes past the
\* configured retry count, and every wait is the configured base times a
\* power of two.
C9_ConfigGovernsEveryFetch ==
    \A t \in Threads :
        /\ fr[t].state = "inflight" => fr[t].timeout = args.timeout
        /\ fr[t].attempt <= args.retries
        /\ fr[t].tries <= args.retries
        /\ \A i \in 1..Len(fr[t].sleeps) :
              \E k \in 0..args.retries : fr[t].sleeps[i] = args.backoff * Pow2(k)

ReferencedShards == {index.weight_map[i].file : i \in 1..Len(index.weight_map)}

FromShardedPath == pc = "done" /\ shardedError = NoError

\* C10: a catalog returned from the sharded path rests on a successfully
\* decoded header, collected under its filename, for every shard file the
\* weight_map names; after a failed shard decode a run that ends returns the
\* single-file catalog or an error.
C10_NoPartialCatalog ==
    /\ FromShardedPath =>
          /\ index = indexDoc
          /\ \A f \in ReferencedShards :
                /\ decoded[f].kind = "ok"
                /\ f \in DOMAIN headers
                /\ headers[f] = files[f].doc.entries
    /\ (Ended /\ \E f \in ShardNames : decoded[f].kind = "err") =>
          \/ pc = "failed"
          \/ /\ shardedError # NoError
             /\ result = ServedSingleCatalog.records

C10_Witness ==
    /\ FromShardedPath
    /\ ReferencedShards = {Shard1, Shard2}
    /\ Len(result) = 3

----------------------------------------------------------------------------
(* Claims about the thread pool of parse_sharded_index, checked under Spec *)

\* C11: once the main thread has observed a failed shard decode (result()
\* raised and the with-block is being left), no shard decode that had not
\* begun begins; and the exception handed to the handler of get_model_layers
\* is that first observed failure.
C11_FailFast ==
    [][ /\ pc = "shutdown" =>
              \A f \in ShardNames : fetches[f] = << >> => fetches'[f] = << >>
        /\ (pc = "shutdown" /\ pc' # "shutdown") => shardedError' = pendingErr
      ]_vars

ShardDecodesInProgress ==
    {t \in Threads : dec[t].stage # "idle" /\ dec[t].file \in ShardNames}

\* C13: at most --jobs shard header decodes are in progress at any time; with
\* --jobs 1 a shard's decode begins only after the decode of every shard
\* before it in sorted filename order has finished.
C13_BoundedConcurrency ==
    /\ Cardinality(ShardDecodesInProgress) <= args.jobs
    /\ args.jobs = 1 =>
          \A i, j \in 1..Len(shard_files) :
              (i < j /\ fetches[shard_files[j]] # << >>) =>
                  decoded[shard_files[i]].kind # "none"

C13_Witness ==
    /\ args.jobs = 1
    /\ dec[1].file = Shard1
    /\ dec[1].stage = "body"
    /\ queue = << Shard2 >>

\* C20: the single-file fallback never overlaps the sharded phase: from its
\* first request on, no work item is queued, no pool thread is decoding or
\* fetching, and every submitted shard decode has finished; no shard request
\* is in flight while a request for model.safetensors is.
C20_NoOverlap ==
    /\ fetches[SAFETENSORS_FILE] # << >> =>
          /\ queue = << >>
          /\ \A w \in Workers : dec[w].stage = "idle" /\ fr[w].state = "idle"
          /\ \A i \in 1..submitted : decoded[shard_files[i]].kind # "none"
    /\ ~ \E w \in Workers :
            /\ fr[w].state = "inflight"
            /\ fr[MainThread].state = "inflight"
            /\ fr[MainThread].file = SAFETENSORS_FILE

C20_Witness ==
    /\ pc = "fallback"
    /\ shardedError = pendingErr
    /\ decoded[Shard1].kind = "err"
    /\ decoded[Shard2].kind = "ok"
    /\ fr[MainThread].state = "inflight"
    /\ fr[MainThread].range = Range(0, 7)

----------------------------------------------------------------------------
(* Further claims about the sharded path, checked under Spec *)

ServedHeaders == [f \in ShardNames |-> files[f].doc.entries]

\* C12: a catalog returned from the sharded path is determined by the served
\* index and the served shard headers alone: whatever --jobs is and in
\* whatever order the shard decodes complete and are collected, it is the
\* catalog built from weight_map over those headers, records and order.
C12_SameCatalogForEveryOrder ==
    FromShardedPath => result = ShardedCatalog(indexDoc, ServedHeaders).records

C12_Witness ==
    /\ FromShardedPath
    /\ args.jobs = MaxJobs
    /\ result = << TensorRecord(TensorB), TensorRecord(TensorA), TensorRecord(TensorC) >>

\* the weight_map entries whose tensor is in the served header of their shard
PresentEntries ==
    SelectSeq(indexDoc.weight_map,
              LAMBDA e : HasName(files[e.file].doc.entries, e.name))

\* C14: the sharded catalog has, in weight_map order, exactly one record for
\* each weight_map entry whose tensor is in the decoded header of its shard,
\* with the shape and dtype of that header entry; entries whose tensor is
\* absent are left out and do not make the build fail: a run whose index and
\* referenced shards all decoded, and whose present entries all have a shape,
\* returns the sharded catalog.
C14_ShardedCatalogContents ==
    /\ FromShardedPath =>
          /\ Len(result) = Len(PresentEntries)
          /\ \A i \in 1..Len(result) :
                LET e == PresentEntries[i]
                    info == Lookup(files[e.file].doc.entries, e.name)
                IN  /\ result[i].name = e.name
                    /\ result[i].shape = info.shape
                    /\ result[i].dtype = info.dtype
    /\ (/\ Ended
        /\ index = indexDoc /\ indexDoc.kind = "json"
        /\ \A f \in ReferencedShards : decoded[f].kind = "ok"
        /\ \A i \in 1..Len(PresentEntries) :
              Lookup(files[PresentEntries[i].file].doc.entries,
                     PresentEntries[i].name).hasShape)
       => FromShardedPath

C14_Witness ==
    /\ FromShardedPath
    /\ index.weight_map = << WeightEntry("a.weight", Shard1), WeightEntry("b.weight", Shard2) >>
    /\ ~HasName(headers[Shard2], "b.weight")
    /\ result = << [name |-> "a.weight", shape |-> << 2, 3 >>, dtype |-> "F32", size |-> 24] >>

ShardsOfIndex == {indexDoc.weight_map[i].file : i \in 1..Len(indexDoc.weight_map)}

\* number of parse_single_file calls made for a file (each begins with bytes=0-7)
DecodeStarts(f) ==
    Cardinality({i \in 1..Len(fetches[f]) : fetches[f][i] = Range(0, 7)})

\* C17: a shard file is decoded at most once, only if weight_map names it, and
\* only after the index has been fetched and parsed; the shard list is the
\* distinct filenames of weight_map in sorted order, and the decodes are
\* submitted in that order; when parse_sharded_index has returned every named
\* shard was decoded exactly once and the collected map has exactly those keys.
C17_OneDecodePerShard ==
    /\ \A f \in ShardNames :
          /\ DecodeStarts(f) <= 1
          /\ fetches[f] # << >> =>
                /\ f \in ShardsOfIndex
                /\ pc # "index"
                /\ index = indexDoc
    /\ index # NoIndex =>
          /\ {shard_files[i] : i \in 1..Len(shard_files)} = ShardsOfIndex
          /\ Len(shard_files) = Cardinality(ShardsOfIndex)
          /\ ShardsOfIndex = {Shard1, Shard2} => shard_files = << Shard1, Shard2 >>
          /\ \A i \in 1..Len(shard_files) :
                (\/ fetches[shard_files[i]] # << >>
                 \/ \E k \in 1..Len(queue) : queue[k] = shard_files[i])
                <=> i <= submitted
          /\ queue = SubSeq(shard_files, submitted - Len(queue) + 1, submitted)
    /\ FromShardedPath =>
          /\ DOMAIN headers = ShardsOfIndex
          /\ \A f \in ShardsOfIndex : DecodeStarts(f) = 1

C17_Witness ==
    /\ FromShardedPath
    /\ Len(index.weight_map) = 2
    /\ shard_files = << Shard1 >>
    /\ DOMAIN headers = {Shard1}
    /\ fetches[Shard2] = << >>

\* C18: every change of the collection map is one insertion made by the main
\* thread while it consumes a completed future: in that step no pool thread
\* moves, the key is a filename not yet consumed and not yet in the map, its
\* value is the result of that file's task, and the other keys keep their
\* values.
C18_SingleWriter ==
    [][ headers' # headers =>
          /\ pc = "pool"
          /\ \A w \in Workers : fr'[w] = fr[w] /\ dec'[w] = dec[w]
          /\ \E f \in ShardNames \ DOMAIN headers :
                /\ f \notin consumed
                /\ consumed' = consumed \cup {f}
                /\ DOMAIN headers' = DOMAIN headers \cup {f}
                /\ headers'[f] = decoded[f].header
                /\ \A g \in DOMAIN headers : headers'[g] = headers[g]
      ]_vars

C18_Witness ==
    /\ args.jobs = 2
    /\ DOMAIN headers = {Shard2}
    /\ consumed = {Shard2}
    /\ dec[1].file = Shard1
    /\ fr[1].state = "inflight"

----------------------------------------------------------------------------
(* Termination, checked under SpecLive *)

\* C19: every run reaches Done or Failed.  On the way each fetch stays within
\* its retries + 1 attempts and ends with a response or with the error of its
\* last attempt (never with the RuntimeError after the loop), a run that has
\* ended has left no work item queued and no pool thread busy, and the
\* single-file fallback is started at most once.
C19_RunTerminates ==
    /\ <>Ended
    /\ [](\A t \in Threads :
            /\ fr[t].attempt <= fr[t].retries
            /\ fr[t].nreq <= (fr[t].retries + 1) * (fr[t].retries + 1)
            /\ fr[t].err.kind # "RuntimeError"
            /\ fr[t].state = "err" =>
                  /\ fr[t].attempt = fr[t].retries
                  /\ fr[t].status = 0 \/ fr[t].status >= 400
                  /\ fr[t].err.kind \in {"ConnectionError", "RetryError", "HTTPError"}
                  /\ fr[t].err.status = fr[t].status)
    /\ [](Ended => (queue = << >> /\ \A t \in Threads : dec[t].stage = "idle"))
    /\ [](DecodeStarts(SAFETENSORS_FILE) <= 1)

C19_Witness ==
    /\ pc = "done"
    /\ shardedError = Err("RetryError", SAFETENSORS_INDEX_FILE, 503)
    /\ DecodeStarts(SAFETENSORS_FILE) = 1

----------------------------------------------------------------------------
(* Claims about the catalog build, checked under SpecBuild *)

ValidHeader(h) ==
    \A i \in 1..Len(h) : h[i].name = "__metadata__" \/ h[i].hasShape

FallbackHeader == decoded[SAFETENSORS_FILE].header

\* C15: the single-file build of a valid header H succeeds and yields one
\* record per key of H other than __metadata__, in H's order: len(H) records,
\* or len(H) - 1 when __metadata__ is a key, none of them named __metadata__.
C15_SingleFileRecordCount ==
    (/\ Ended
     /\ shardedError # NoError
     /\ decoded[SAFETENSORS_FILE].kind = "ok"
     /\ ValidHeader(FallbackHeader))
    => /\ pc = "done"
       /\ Len(result) = Len(FallbackHeader)
                        - (IF HasName(FallbackHeader, "__metadata__") THEN 1 ELSE 0)
       /\ \A i \in 1..Len(result) : result[i].name # "__metadata__"
       /\ \A i \in 1..Len(result) :
             result[i].name =
                 SelectSeq(FallbackHeader, LAMBDA e : e.name # "__metadata__")[i].name

C15_Witness ==
    /\ pc = "done"
    /\ FallbackHeader = << TensorA, Metadata, TensorC >>
    /\ Len(result) = 2
    /\ result[2].name = "c.weight"

\* byte widths by dtype tag, canonical tags and lowercase aliases
ByteWidths ==
    {<< "F32", 4 >>, << "F16", 2 >>, << "BF16", 2 >>, << "I64", 8 >>, << "I32", 4 >>,
     << "I16", 2 >>, << "I8", 1 >>, << "U8", 1 >>, << "BOOL", 1 >>,
     << "float32", 4 >>, << "float16", 2 >>, << "bfloat16", 2 >>, << "int64", 8 >>,
     << "int32", 4 >>, << "int16", 2 >>, << "int8", 1 >>, << "uint8", 1 >>, << "bool", 1 >>}

WidthOf(dtype) ==
    IF \E p \in ByteWidths : p[1] = dtype
    THEN (CHOOSE p \in ByteWidths : p[1] = dtype)[2]
    ELSE 1

\* the product of a shape of at most three dimensions, written out
ShapeProduct(shape) ==
    CASE Len(shape) = 0 -> 1
      [] Len(shape) = 1 -> shape[1]
      [] Len(shape) = 2 -> shape[1] * shape[2]
      [] Len(shape) = 3 -> shape[1] * shape[2] * shape[3]

\* C16: every record of a returned catalog, on the sharded path and on the
\* single-file path alike, has size = product of its shape (1 for the empty
\* shape) times the byte width of its dtype, 1 for a dtype outside the table.
C16_SizeIsProductTimesWidth ==
    pc = "done" =>
        \A i \in 1..Len(result) :
            result[i].size = ShapeProduct(result[i].shape) * WidthOf(result[i].dtype)

C16_Witness ==
    /\ pc = "done"
    /\ shardedError = NoError
    /\ result = << [name |-> "t.weight", shape |-> << 1, 1, 5 >>,
                    dtype |-> "bfloat16", size |-> 10] >>

====
